---- MODULE Spec2Model ----
(***************************************************************************)
(* A model of train.py: read_data (feature vectors, padding, labels) and   *)
(* train (split, epochs, mini-batches, metrics, checkpoints).              *)
(*                                                                         *)
(* Python values are represented as follows.                               *)
(*   None            the empty sequence <<>>; a given value v is <<v>>     *)
(*   a str token     the record [str |-> <<d1, .., dn>>] of decimal digits *)
(*   an int          the record [int |-> n]                                *)
(*   an L1 name      its rank (a natural) in the lexicographic order of    *)
(*                   the names, so that sorted() is the numeric order      *)
(***************************************************************************)
EXTENDS Integers, Sequences, FiniteSets, TLC

VARIABLES
    \* ---- read_data ----
    rpc,          \* position in read_data
    lang,         \* the 'L1' column of the label CSV, one entry per row
    nfiles,       \* len(listdir(file_dir))
    max_length, vocab_size, line,   \* read_data's arguments
    lang_dict,    \* index -> L1
    label,        \* label per CSV row
    samples,      \* the Python list being built
    label_line,
    i,            \* enumerate index of the file being read (0-based)
    nlines,       \* len(lines) of the file being read
    ln,           \* number of lines of that file the inner loop has consumed
    src,          \* history: what was read so far, [file |-> i, tokens |-> split text]
    ret,          \* read_data's return value (mat, label, lang_dict)
    rfail,        \* the exception read_data raised, "" when none
    \* ---- train ----
    pc,           \* position in train
    failure,      \* the exception that ended train, "" when none
    num_epochs, save_every, batch_size, clip_norm, cuda, val_split,   \* args
    save_dir,     \* train's save_dir argument
    all_mat, all_label,      \* what read_data returned: sample ids and labels
    train_mat, val_mat, train_label, val_label,
    model_device, val_device,
    ep,           \* the epoch loop's variable
    order,        \* the sampler's permutation of the train set for this epoch
    pos,          \* how many samples of it the loader has handed out
    x, y, x_device, y_device,   \* the mini-batch at hand
    mode,         \* "train" or "eval" (nlcnn_model.train() / .eval())
    weights,      \* the model state, as the number of optimizer steps applied
    grads,        \* "none", "zero" (zero_grad), "raw" (backward) or "clipped"
    loss,         \* the local variable loss: None until first assigned
    train_pred, train_y,
    train_loss, train_f1, val_f1,
    checkpoints,  \* files written by torch.save, in order: [name, state]
    result,       \* train's return value
    \* history
    trained_on,   \* ids fed to a train-mode forward pass
    eval_fed,     \* ids fed to an eval-mode forward pass
    drawn,        \* ids handed out by the loader in this epoch, in order
    steps_ep,     \* optimizer steps taken in this epoch
    batches_ep    \* mini-batches handed out in this epoch

rvars == <<rpc, lang, nfiles, max_length, vocab_size, line, lang_dict, label,
           samples, label_line, i, nlines, ln, src, ret, rfail>>
targs == <<num_epochs, save_every, batch_size, clip_norm, cuda, val_split, save_dir,
           all_mat, all_label>>
tsplit == <<train_mat, val_mat, train_label, val_label>>
tdev == <<model_device, val_device>>
tloop == <<ep, order, pos>>
tbatch == <<x, y, x_device, y_device>>
tmodel == <<mode, weights, grads, loss>>
tmetrics == <<train_pred, train_y, train_loss, train_f1, val_f1>>
thist == <<trained_on, eval_fed, drawn, steps_ep, batches_ep>>
tvars == <<pc, failure, targs, tsplit, tdev, tloop, tbatch, tmodel, tmetrics,
           checkpoints, result, thist>>
vars == <<rvars, tvars>>

\* ------------------------------------------------------------------ bounds
MaxFiles == 2      \* files in the feature directory, rows of the label CSV
MaxLines == 2      \* lines in the feature directory, over all files
MaxLen == 2        \* max_length; a line holds up to MaxLen + 1 tokens
\* the L1 names a label CSV may hold, by rank
L1Names == {1, 2}
\* the vocabulary sizes tried
VocabSizes == {2}
MaxSamples == 4    \* samples read_data returns to train (at least one)
MaxEpochs == 2     \* num_epochs
MaxBatch == 2      \* batch_size
MaxEvery == 2      \* save_every
\* --val-split as a fraction <<numerator, denominator>>: 0.0909 (the default)
\* and 0.5
ValSplits == {<<909, 10000>>, <<1, 2>>}
\* --cuda: absent, device 0, device 1
CudaArgs == {<<>>, <<0>>, <<1>>}
\* --clip-norm: absent, 1.0
ClipArgs == {<<>>, <<1>>}
\* save_dir: absent, the log directory
SaveDirs == {<<>>, <<"model/2017-01-01-000000">>}

\* ------------------------------------------------------- Python helpers
None == <<>>
Some(v) == <<v>>
Truthy(o) == o # None /\ o[1] # 0          \* bool(x) of None, 0 / 0.0, other
Min(a, b) == IF a <= b THEN a ELSE b

PyStr(digits) == [str |-> digits]
PyInt(n) == [int |-> n]
IsStr(e) == "str" \in DOMAIN e

RECURSIVE ParseInt(_)
\* int("d1..dn"): the decimal value of a digit string
ParseInt(d) == IF d = <<>> THEN 0
               ELSE 10 * ParseInt(SubSeq(d, 1, Len(d) - 1)) + d[Len(d)]

\* np.int64 of one list element: a str is parsed, an int is kept
NpInt64(e) == IF IsStr(e) THEN ParseInt(e.str) ELSE e.int

\* xs * k for a Python list xs: empty when k <= 0
RECURSIVE Repeat(_, _)
Repeat(xs, k) == IF k <= 0 THEN <<>> ELSE xs \o Repeat(xs, k - 1)

\* xs[:n] for n >= 0
Take(xs, n) == SubSeq(xs, 1, Min(Len(xs), n))

RECURSIVE SortSet(_)
\* sorted(list(S))
SortSet(S) == IF S = {} THEN <<>>
              ELSE LET m == CHOOSE a \in S : \A b \in S : a <= b
                   IN <<m>> \o SortSet(S \ {m})

SeqsUpTo(S, n) == UNION {[1..k -> S] : k \in 0..n}

\* ------------------------------------------------------------ read_data
\* the text of feature index v as it stands in a feature file
TokenText(v) == PyStr(IF v < 10 THEN <<v>> ELSE <<v \div 10, v % 10>>)

\* A line (or a whole file) split() into n tokens: the texts of the feature
\* indices f, f+1, .. taken modulo the vocabulary size
TokenLine(n, f) == [j \in 1..n |-> TokenText((f + j - 1) % vocab_size)]
LineSet == {TokenLine(n, f) : n \in 0..(MaxLen + 1), f \in 0..(vocab_size - 1)}

lang_list_of(lg) == SortSet({lg[r] : r \in 1..Len(lg)})
lang_dict_of(lg) == LET ll == lang_list_of(lg) IN [k \in 0..(Len(ll) - 1) |-> ll[k + 1]]
lang_rev_dict_of(ld) == [l \in {ld[k] : k \in DOMAIN ld} |-> CHOOSE k \in DOMAIN ld : ld[k] = l]
label_of(lg) == LET rev == lang_rev_dict_of(lang_dict_of(lg))
                IN [r \in 1..Len(lg) |-> rev[lg[r]]]

pad == <<PyInt(vocab_size)>>

\* a padding bug: the padding put in front of the tokens
PadSampleFront(tokens) == Repeat(pad, max_length - Len(tokens)) \o Take(tokens, max_length)

\* tokens[:max_length] + pad * (max_length - len(tokens))
PadSample(tokens) == Take(tokens, max_length) \o Repeat(pad, max_length - Len(tokens))

\* np.array(samples, dtype=np.int64): shape and int64 data.  A list of lists
\* gives a 2-d array, a flat list a 1-d array, the empty list shape (0,).
NpArray(ss, nested) ==
    IF ss = <<>> THEN [shape |-> <<0>>, data |-> <<>>]
    ELSE IF nested
         THEN [shape |-> <<Len(ss), Len(ss[1])>>,
               data |-> [r \in 1..Len(ss) |-> [c \in 1..Len(ss[r]) |-> NpInt64(ss[r][c])]]]
         ELSE [shape |-> <<Len(ss)>>,
               data |-> [r \in 1..Len(ss) |-> NpInt64(ss[r])]]

NoRet == [mat |-> [shape |-> <<>>, data |-> <<>>], label |-> <<>>, lang_dict |-> <<>>]

RInit ==
    /\ rpc = "labels"
    /\ lang \in SeqsUpTo(L1Names, MaxFiles)
    /\ nfiles \in 0..MaxFiles
    /\ max_length \in 1..MaxLen
    /\ vocab_size \in VocabSizes
    /\ line \in BOOLEAN
    /\ lang_dict = <<>>
    /\ label = <<>>
    /\ samples = <<>>
    /\ label_line = <<>>
    /\ i = 0
    /\ nlines = 0
    /\ ln = 0
    /\ src = <<>>
    /\ ret = NoRet
    /\ rfail = ""

\* lines 23-33
ReadLabels ==
    /\ UNCHANGED tvars
    /\ rpc = "labels"
    /\ lang_dict' = lang_dict_of(lang)
    /\ label' = label_of(lang)
    /\ rpc' = "files"
    /\ UNCHANGED <<lang, nfiles, max_length, vocab_size, line, samples, label_line,
                   i, nlines, ln, src, ret, rfail>>

\* lines 35-37: the next file of listdir is opened and read; the number of its
\* lines is drawn here, the text of each line when the inner loop reaches it
OpenFileLines ==
    /\ UNCHANGED tvars
    /\ rpc = "files" /\ i < nfiles /\ line
    /\ \E n \in 0..(MaxLines - Len(samples)) : nlines' = n
    /\ ln' = 0
    /\ rpc' = "lines"
    /\ UNCHANGED <<lang, nfiles, max_length, vocab_size, line, lang_dict, label,
                   samples, label_line, i, src, ret, rfail>>

\* lines 38-40: one line is split and its padded sample appended
ReadLine ==
    /\ UNCHANGED tvars
    /\ rpc = "lines" /\ ln < nlines
    /\ \E tokens \in LineSet :
          /\ samples' = Append(samples, PadSample(tokens))
          /\ src' = Append(src, [file |-> i, tokens |-> tokens])
    /\ ln' = ln + 1
    /\ UNCHANGED <<rpc, lang, nfiles, max_length, vocab_size, line, lang_dict, label,
                   label_line, i, nlines, ret, rfail>>

\* line 41: label_line += [label[i]] * len(lines); label[i] raises IndexError
\* when the CSV has no row i
EndFile ==
    /\ UNCHANGED tvars
    /\ rpc = "lines" /\ ln = nlines
    /\ IF i + 1 \in DOMAIN label
       THEN /\ label_line' = label_line \o Repeat(<<label[i + 1]>>, nlines)
            /\ i' = i + 1
            /\ rpc' = "files"
            /\ rfail' = rfail
       ELSE /\ rpc' = "raised"
            /\ rfail' = "IndexError"
            /\ UNCHANGED <<label_line, i>>
    /\ UNCHANGED <<lang, nfiles, max_length, vocab_size, line, lang_dict, label,
                   samples, nlines, ln, src, ret>>

\* lines 42-44: the whole file is read and split; samples += extends the list
\* by the elements of the padded vector
ReadWholeFile ==
    /\ UNCHANGED tvars
    /\ rpc = "files" /\ i < nfiles /\ ~line
    /\ \E tokens \in LineSet :
          /\ samples' = samples \o PadSample(tokens)
          /\ src' = Append(src, [file |-> i, tokens |-> tokens])
    /\ i' = i + 1
    /\ UNCHANGED <<rpc, lang, nfiles, max_length, vocab_size, line, lang_dict, label,
                   label_line, nlines, ln, ret, rfail>>

\* lines 46-50
Return ==
    /\ UNCHANGED tvars
    /\ rpc = "files" /\ i = nfiles
    /\ ret' = [mat |-> NpArray(samples, line),
               label |-> IF line THEN label_line ELSE label,
               lang_dict |-> lang_dict]
    /\ rpc' = "returned"
    /\ UNCHANGED <<lang, nfiles, max_length, vocab_size, line, lang_dict, label,
                   samples, label_line, i, nlines, ln, src, rfail>>

RIdle ==
    /\ rpc = "idle" /\ lang = <<>> /\ nfiles = 0 /\ max_length = 0 /\ vocab_size = 0
    /\ line = TRUE /\ lang_dict = <<>> /\ label = <<>> /\ samples = <<>>
    /\ label_line = <<>> /\ i = 0 /\ nlines = 0 /\ ln = 0 /\ src = <<>>
    /\ ret = NoRet /\ rfail = ""

\* ----------------------------------------------------------------- train
Cpu == <<"cpu">>
Cuda(d) == <<"cuda", d>>
TruthyStr(o) == o # None /\ o[1] # ""      \* bool(x) of None, "", other str
CeilDiv(a, b) == (a + b - 1) \div b
Ids(seq) == {seq[k] : k \in 1..Len(seq)}
Perms(S) == {p \in [1..Cardinality(S) -> S] : \A a, b \in 1..Cardinality(S) : p[a] = p[b] => a = b}

\* sklearn's train_test_split sizes for a float test_size:
\* n_test = ceil(test_size * n), n_train = n - n_test
NTest(n) == CeilDiv(n * val_split[1], val_split[2])

\* a split bug: the validation rows are left in the train set
TrainRowsAll(test) == SortSet(1..Len(all_mat))

\* train_test_split draws the test rows at random and gives the other rows to
\* the train set.  Each part is listed in ascending row order: the order of
\* the train rows is redrawn by the loader every epoch, and that of the
\* validation rows only permutes the two arguments of f1_score alike.
TestRows(test) == SortSet(test)
TrainRows(test) == SortSet((1..Len(all_mat)) \ test)

\* a loader bug: every batch starts one sample late
BatchLate(ord, p) == SubSeq(ord, p + 2, Min(p + batch_size, Len(ord)))

\* DataLoader's batch sampler, drop_last=False: the next batch_size elements
\* of the epoch's permutation, fewer at its end
Batch(ord, p) == SubSeq(ord, p + 1, Min(p + batch_size, Len(ord)))

\* "model-state-{:04d}.pkl".format(n): the digits of n, zero-padded to four
RECURSIVE Digits(_)
Digits(n) == IF n < 10 THEN <<n>> ELSE Digits(n \div 10) \o <<n % 10>>
Format04d(n) == Repeat(<<0>>, 4 - Len(Digits(n))) \o Digits(n)
SaveName(n) == <<"model-state-", Format04d(n), ".pkl">>

\* a checkpoint bug: the final epoch is not saved unless it is a multiple
ShouldSaveNoFinal(e) == (e + 1) % save_every = 0

\* line 154, for save_every # 0
ShouldSave(e) == (e + 1) % save_every = 0 \/ e = num_epochs - 1

\* line 132 passes the bound method nlcnn_model.parameters, not its result
ClipArg == "bound_method"
\* nn.utils.clip_grad_norm(parameters, max_norm) iterates over parameters
ClipGradNorm(parameters) == IF parameters = "iterable" THEN "clipped" ELSE "TypeError"

TInit ==
    /\ pc = "split"
    /\ failure = ""
    /\ num_epochs \in 0..MaxEpochs
    /\ save_every \in 0..MaxEvery
    /\ batch_size \in 1..MaxBatch
    /\ clip_norm \in ClipArgs
    /\ cuda \in CudaArgs
    /\ val_split \in ValSplits
    /\ save_dir \in SaveDirs
    /\ \E n \in 1..MaxSamples :
          /\ all_mat = [k \in 1..n |-> k]
          /\ all_label = [k \in 1..n |-> (k - 1) % 2]
    /\ train_mat = <<>> /\ val_mat = <<>> /\ train_label = <<>> /\ val_label = <<>>
    /\ model_device = Cpu /\ val_device = Cpu
    /\ ep = 0 /\ order = <<>> /\ pos = 0
    /\ x = <<>> /\ y = <<>> /\ x_device = Cpu /\ y_device = Cpu
    /\ mode = "train" /\ weights = 0 /\ grads = "none" /\ loss = None
    /\ train_pred = <<>> /\ train_y = <<>>
    /\ train_loss = <<>> /\ train_f1 = <<>> /\ val_f1 = <<>>
    /\ checkpoints = <<>>
    /\ result = None
    /\ trained_on = {} /\ eval_fed = {} /\ drawn = <<>> /\ steps_ep = 0 /\ batches_ep = 0

TIdle ==
    /\ pc = "idle"
    /\ failure = ""
    /\ num_epochs = 0 /\ save_every = 0 /\ batch_size = 0 /\ clip_norm = None
    /\ cuda = None /\ val_split = <<0, 1>> /\ save_dir = None
    /\ all_mat = <<>> /\ all_label = <<>>
    /\ train_mat = <<>> /\ val_mat = <<>> /\ train_label = <<>> /\ val_label = <<>>
    /\ model_device = Cpu /\ val_device = Cpu
    /\ ep = 0 /\ order = <<>> /\ pos = 0
    /\ x = <<>> /\ y = <<>> /\ x_device = Cpu /\ y_device = Cpu
    /\ mode = "train" /\ weights = 0 /\ grads = "none" /\ loss = None
    /\ train_pred = <<>> /\ train_y = <<>>
    /\ train_loss = <<>> /\ train_f1 = <<>> /\ val_f1 = <<>>
    /\ checkpoints = <<>>
    /\ result = None
    /\ trained_on = {} /\ eval_fed = {} /\ drawn = <<>> /\ steps_ep = 0 /\ batches_ep = 0

\* a failure-handling bug: the failed step is flagged and tried again
RaiseAndRetry(kind) ==
    /\ failure' = kind
    /\ pc' = pc

\* an exception leaves train: nothing in train catches it
Raise(kind) ==
    /\ pc' = "failed"
    /\ failure' = kind

\* optimizer.zero_grad(): gradients that exist are zeroed
ZeroGrad(g) == IF g = "none" THEN "none" ELSE "zero"

\* lines 68-70: train_test_split cuts the rows and the labels alike
Split ==
    /\ UNCHANGED rvars
    /\ pc = "split"
    /\ \E test \in {S \in SUBSET (1..Len(all_mat)) : Cardinality(S) = NTest(Len(all_mat))} :
          LET tr == TrainRows(test)
              te == TestRows(test)
          IN /\ train_mat' = [k \in 1..Len(tr) |-> all_mat[tr[k]]]
             /\ train_label' = [k \in 1..Len(tr) |-> all_label[tr[k]]]
             /\ val_mat' = [k \in 1..Len(te) |-> all_mat[te[k]]]
             /\ val_label' = [k \in 1..Len(te) |-> all_label[te[k]]]
    /\ pc' = "setup"
    /\ UNCHANGED <<failure, targs, tdev, tloop, tbatch, tmodel, tmetrics,
                   checkpoints, result, thist>>

\* lines 76-104: model, device, optimizer, loader, metric lists
Setup ==
    /\ UNCHANGED rvars
    /\ pc = "setup"
    /\ model_device' = IF Truthy(cuda) THEN Cuda(cuda[1]) ELSE Cpu
    /\ val_device' = IF Truthy(cuda) THEN Cuda(cuda[1]) ELSE Cpu
    /\ train_loss' = <<>> /\ train_f1' = <<>> /\ val_f1' = <<>>
    /\ pc' = "epoch"
    /\ UNCHANGED <<failure, targs, tsplit, tloop, tbatch, tmodel, train_pred, train_y,
                   checkpoints, result, thist>>

\* lines 106-114: the next epoch begins; iterating the loader draws a fresh
\* permutation (shuffle=True)
BeginEpoch ==
    /\ UNCHANGED rvars
    /\ pc = "epoch" /\ ep < num_epochs
    /\ train_pred' = <<>> /\ train_y' = <<>>
    /\ \E perm \in Perms(1..Len(train_mat)) : order' = perm
    /\ pos' = 0
    /\ drawn' = <<>> /\ steps_ep' = 0 /\ batches_ep' = 0
    /\ pc' = "batch"
    /\ UNCHANGED <<failure, targs, tsplit, tdev, ep, tbatch, tmodel,
                   train_loss, train_f1, val_f1, checkpoints, result,
                   trained_on, eval_fed>>

\* lines 114-120: the loader hands out the next mini-batch
NextBatch ==
    /\ UNCHANGED rvars
    /\ pc = "batch" /\ pos < Len(order)
    /\ LET rows == Batch(order, pos)
       IN /\ x' = [k \in 1..Len(rows) |-> train_mat[rows[k]]]
          /\ y' = [k \in 1..Len(rows) |-> train_label[rows[k]]]
          /\ pos' = pos + Len(rows)
          /\ drawn' = drawn \o [k \in 1..Len(rows) |-> train_mat[rows[k]]]
    /\ x_device' = IF Truthy(cuda) THEN Cuda(cuda[1]) ELSE Cpu
    /\ y_device' = IF Truthy(cuda) THEN Cuda(cuda[1]) ELSE Cpu
    /\ batches_ep' = batches_ep + 1
    /\ pc' = "forward"
    /\ UNCHANGED <<failure, targs, tsplit, tdev, ep, order, tmodel, tmetrics,
                   checkpoints, result, trained_on, eval_fed, steps_ep>>

\* lines 122-128: train-mode forward pass, predictions, loss
Forward ==
    /\ UNCHANGED rvars
    /\ pc = "forward"
    /\ mode' = "train"
    /\ trained_on' = trained_on \cup Ids(x)
    /\ train_pred' = train_pred \o [k \in 1..Len(x) |-> [pred |-> x[k], at |-> weights]]
    /\ train_y' = train_y \o y
    /\ loss' = Some([epoch |-> ep + 1, batch |-> batches_ep])
    /\ pc' = "backward"
    /\ UNCHANGED <<failure, targs, tsplit, tdev, tloop, tbatch, weights, grads,
                   train_loss, train_f1, val_f1, checkpoints, result,
                   eval_fed, drawn, steps_ep, batches_ep>>

\* lines 129-130: zero_grad, backward
Backward ==
    /\ UNCHANGED rvars
    /\ pc = "backward"
    /\ grads' = "raw"
    /\ pc' = "clip"
    /\ UNCHANGED <<failure, targs, tsplit, tdev, tloop, tbatch, mode, weights, loss,
                   tmetrics, checkpoints, result, thist>>

\* lines 131-135: clip by gradient norm when --clip-norm is set
ClipGrad ==
    /\ UNCHANGED rvars
    /\ pc = "clip"
    /\ IF Truthy(clip_norm)
       THEN IF ClipGradNorm(ClipArg) = "TypeError"
            THEN /\ Raise("TypeError")
                 /\ UNCHANGED <<targs, tsplit, tdev, tloop, tbatch, tmodel, tmetrics,
                                checkpoints, result, thist>>
            ELSE /\ grads' = ClipGradNorm(ClipArg)
                 /\ pc' = "step"
                 /\ UNCHANGED <<failure, targs, tsplit, tdev, tloop, tbatch, mode, weights,
                                loss, tmetrics, checkpoints, result, thist>>
       ELSE /\ pc' = "step"
            /\ UNCHANGED <<failure, targs, tsplit, tdev, tloop, tbatch, tmodel,
                           tmetrics, checkpoints, result, thist>>

\* line 137: optimizer.step()
Step ==
    /\ UNCHANGED rvars
    /\ pc = "step"
    /\ weights' = weights + 1
    /\ steps_ep' = steps_ep + 1
    /\ pc' = "batch"
    /\ UNCHANGED <<failure, targs, tsplit, tdev, tloop, tbatch, mode, grads, loss,
                   tmetrics, checkpoints, result, trained_on, eval_fed, drawn,
                   batches_ep>>

\* lines 139-142: the loader is exhausted; loss and train F1 are recorded.
\* loss is unbound when the loop body never ran
Metrics ==
    /\ UNCHANGED rvars
    /\ pc = "batch" /\ pos >= Len(order)
    /\ IF loss = None
       THEN /\ Raise("UnboundLocalError")
            /\ UNCHANGED <<targs, tsplit, tdev, tloop, tbatch, tmodel, tmetrics,
                           checkpoints, result, thist>>
       ELSE /\ train_loss' = Append(train_loss, loss[1])
            /\ train_f1' = Append(train_f1, [n |-> Len(train_pred)])
            /\ pc' = "eval"
            /\ UNCHANGED <<failure, targs, tsplit, tdev, tloop, tbatch, tmodel,
                           train_pred, train_y, val_f1, checkpoints, result, thist>>

\* lines 144-150: eval-mode forward pass over the validation matrix
Eval ==
    /\ UNCHANGED rvars
    /\ pc = "eval"
    /\ mode' = "eval"
    /\ eval_fed' = eval_fed \cup Ids(val_mat)
    /\ val_f1' = Append(val_f1, [n |-> Len(val_label), at |-> weights])
    /\ pc' = "save"
    /\ UNCHANGED <<failure, targs, tsplit, tdev, tloop, tbatch, weights, grads, loss,
                   train_pred, train_y, train_loss, train_f1, checkpoints, result,
                   trained_on, drawn, steps_ep, batches_ep>>

\* lines 152-158, and the loop's increment
Save ==
    /\ UNCHANGED rvars
    /\ pc = "save"
    /\ IF TruthyStr(save_dir)
       THEN IF save_every = 0
            THEN /\ Raise("ZeroDivisionError")
                 /\ UNCHANGED <<targs, tsplit, tdev, tloop, tbatch, tmodel, tmetrics,
                                checkpoints, result, thist>>
            ELSE /\ checkpoints' = IF ShouldSave(ep)
                                   THEN Append(checkpoints,
                                               [name |-> SaveName(ep + 1), state |-> weights])
                                   ELSE checkpoints
                 /\ ep' = ep + 1
                 /\ pc' = "epoch"
                 /\ UNCHANGED <<failure, targs, tsplit, tdev, order, pos, tbatch, tmodel,
                                tmetrics, result, thist>>
       ELSE /\ ep' = ep + 1
            /\ pc' = "epoch"
            /\ UNCHANGED <<failure, targs, tsplit, tdev, order, pos, tbatch, tmodel,
                           tmetrics, checkpoints, result, thist>>

\* line 160
ReturnTrain ==
    /\ UNCHANGED rvars
    /\ pc = "epoch" /\ ep >= num_epochs
    /\ result' = Some(<<train_loss, train_f1, val_f1>>)
    /\ pc' = "returned"
    /\ UNCHANGED <<failure, targs, tsplit, tdev, tloop, tbatch, tmodel, tmetrics,
                   checkpoints, thist>>

\* the framework calls that may raise, by the name failure records for them
FrameworkCalls == {"model.train", "forward", "labels", "criterion", "zero_grad", "backward",
                   "set_postfix", "optimizer.step", "loss read", "train f1_score",
                   "model.eval", "validation", "torch.save"}

\* ---- a call into the framework raises.  What the statements before the
\* ---- raising call did stays done; nothing after it runs.

\* line 122: nlcnn_model.train() raises: the mode stays as it was and the
\* mini-batch is not handed to the model
TrainModeRaises ==
    /\ UNCHANGED rvars
    /\ pc = "forward"
    /\ Raise("model.train")
    /\ UNCHANGED <<targs, tsplit, tdev, tloop, tbatch, tmodel, tmetrics,
                   checkpoints, result, thist>>

\* lines 123-125: the forward pass (or reading its scores) raises, after
\* line 122 put the model in train mode; train_pred is not extended
ForwardRaises ==
    /\ UNCHANGED rvars
    /\ pc = "forward"
    /\ mode' = "train"
    /\ trained_on' = trained_on \cup Ids(x)
    /\ Raise("forward")
    /\ UNCHANGED <<targs, tsplit, tdev, tloop, tbatch, weights, grads, loss, tmetrics,
                   checkpoints, result, eval_fed, drawn, steps_ep, batches_ep>>

\* line 126: reading the labels back raises, after line 125 extended train_pred
LabelsRaise ==
    /\ UNCHANGED rvars
    /\ pc = "forward"
    /\ mode' = "train"
    /\ trained_on' = trained_on \cup Ids(x)
    /\ train_pred' = train_pred \o [k \in 1..Len(x) |-> [pred |-> x[k], at |-> weights]]
    /\ Raise("labels")
    /\ UNCHANGED <<targs, tsplit, tdev, tloop, tbatch, weights, grads, loss,
                   train_y, train_loss, train_f1, val_f1,
                   checkpoints, result, eval_fed, drawn, steps_ep, batches_ep>>

\* line 128: the criterion raises, after lines 122-126; loss keeps its old value
LossRaises ==
    /\ UNCHANGED rvars
    /\ pc = "forward"
    /\ mode' = "train"
    /\ trained_on' = trained_on \cup Ids(x)
    /\ train_pred' = train_pred \o [k \in 1..Len(x) |-> [pred |-> x[k], at |-> weights]]
    /\ train_y' = train_y \o y
    /\ Raise("criterion")
    /\ UNCHANGED <<targs, tsplit, tdev, tloop, tbatch, weights, grads, loss,
                   train_loss, train_f1, val_f1,
                   checkpoints, result, eval_fed, drawn, steps_ep, batches_ep>>

\* line 129: zero_grad raises
ZeroGradRaises ==
    /\ UNCHANGED rvars
    /\ pc = "backward"
    /\ Raise("zero_grad")
    /\ UNCHANGED <<targs, tsplit, tdev, tloop, tbatch, tmodel, tmetrics,
                   checkpoints, result, thist>>

\* line 130: the backward pass raises, after line 129 zeroed the gradients
BackwardRaises ==
    /\ UNCHANGED rvars
    /\ pc = "backward"
    /\ grads' = ZeroGrad(grads)
    /\ Raise("backward")
    /\ UNCHANGED <<targs, tsplit, tdev, tloop, tbatch, mode, weights, loss, tmetrics,
                   checkpoints, result, thist>>

\* line 135: reading the loss for the progress bar raises (without --clip-norm;
\* with it line 132 has raised already)
PostfixRaises ==
    /\ UNCHANGED rvars
    /\ pc = "clip" /\ ~Truthy(clip_norm)
    /\ Raise("set_postfix")
    /\ UNCHANGED <<targs, tsplit, tdev, tloop, tbatch, tmodel, tmetrics,
                   checkpoints, result, thist>>

\* line 137: optimizer.step() raises
StepRaises ==
    /\ UNCHANGED rvars
    /\ pc = "step"
    /\ Raise("optimizer.step")
    /\ UNCHANGED <<targs, tsplit, tdev, tloop, tbatch, tmodel, tmetrics,
                   checkpoints, result, thist>>

\* line 141: reading the (bound) loss raises, before anything is appended
LossReadRaises ==
    /\ UNCHANGED rvars
    /\ pc = "batch" /\ pos >= Len(order) /\ loss # None
    /\ Raise("loss read")
    /\ UNCHANGED <<targs, tsplit, tdev, tloop, tbatch, tmodel, tmetrics,
                   checkpoints, result, thist>>

\* line 142: f1_score of the train predictions raises, after line 141
\* appended the loss
TrainF1Raises ==
    /\ UNCHANGED rvars
    /\ pc = "batch" /\ pos >= Len(order) /\ loss # None
    /\ train_loss' = Append(train_loss, loss[1])
    /\ Raise("train f1_score")
    /\ UNCHANGED <<targs, tsplit, tdev, tloop, tbatch, tmodel,
                   train_pred, train_y, train_f1, val_f1,
                   checkpoints, result, thist>>

\* line 144: nlcnn_model.eval() raises: the mode stays as it was and the
\* validation matrix is not handed to the model
EvalModeRaises ==
    /\ UNCHANGED rvars
    /\ pc = "eval"
    /\ Raise("model.eval")
    /\ UNCHANGED <<targs, tsplit, tdev, tloop, tbatch, tmodel, tmetrics,
                   checkpoints, result, thist>>

\* lines 145-147: the validation forward pass, reading its scores or f1_score
\* raises, after line 144 put the model in eval mode; val_f1 gets no entry
EvalRaises ==
    /\ UNCHANGED rvars
    /\ pc = "eval"
    /\ mode' = "eval"
    /\ eval_fed' = eval_fed \cup Ids(val_mat)
    /\ Raise("validation")
    /\ UNCHANGED <<targs, tsplit, tdev, tloop, tbatch, weights, grads, loss, tmetrics,
                   checkpoints, result, trained_on, drawn, steps_ep, batches_ep>>

\* lines 157-158: state_dict or torch.save raises; no checkpoint of this epoch is recorded
SaveRaises ==
    /\ UNCHANGED rvars
    /\ pc = "save" /\ TruthyStr(save_dir) /\ save_every # 0 /\ ShouldSave(ep)
    /\ Raise("torch.save")
    /\ UNCHANGED <<targs, tsplit, tdev, tloop, tbatch, tmodel, tmetrics,
                   checkpoints, result, thist>>

Next ==
    \/ Split
    \/ Setup
    \/ BeginEpoch
    \/ NextBatch
    \/ Forward
    \/ Backward
    \/ ClipGrad
    \/ Step
    \/ Metrics
    \/ Eval
    \/ Save
    \/ ReturnTrain
    \/ TrainModeRaises
    \/ ForwardRaises
    \/ LabelsRaise
    \/ LossRaises
    \/ ZeroGradRaises
    \/ BackwardRaises
    \/ PostfixRaises
    \/ StepRaises
    \/ LossReadRaises
    \/ TrainF1Raises
    \/ EvalModeRaises
    \/ EvalRaises
    \/ SaveRaises

Init == TInit /\ RIdle

Spec == Init /\ [][Next]_vars

NextRead ==
    \/ ReadLabels
    \/ OpenFileLines
    \/ ReadLine
    \/ EndFile
    \/ ReadWholeFile
    \/ Return

InitRead == RInit /\ TIdle

SpecRead == InitRead /\ [][NextRead]_vars

\* ---------------------------------------------------------- train claims
InBatch == pc \in {"forward", "backward", "clip", "step"}
SaveDue == {e \in 1..num_epochs : e % save_every = 0 \/ e = num_epochs}
\* the epoch a checkpoint file is named for, read back from its name
EpochOfName(name) == ParseInt(name[2])

\* C1: with a save_dir, a run to completion writes a checkpoint named for
\* epoch e exactly when e is a multiple of save_every or e = num_epochs, so
\* the last one written is the final epoch's; without save_dir none is written.
C1_CheckpointSchedule ==
    /\ ~TruthyStr(save_dir) => checkpoints = <<>>
    /\ (pc = "returned" /\ TruthyStr(save_dir)) =>
          /\ {EpochOfName(checkpoints[k].name) : k \in 1..Len(checkpoints)} = SaveDue
          /\ Len(checkpoints) = Cardinality(SaveDue)
          /\ \A k \in 1..Len(checkpoints) :
                /\ Len(checkpoints[k].name[2]) >= 4
                /\ checkpoints[k].name[1] = "model-state-"
                /\ checkpoints[k].name[3] = ".pkl"
          /\ num_epochs >= 1 =>
                EpochOfName(checkpoints[Len(checkpoints)].name) = num_epochs

\* C1's case: a completed run whose final epoch is no multiple of save_every
\* and was saved all the same
C1_Witness ==
    /\ pc = "returned" /\ TruthyStr(save_dir)
    /\ num_epochs >= 1 /\ num_epochs % save_every # 0
    /\ EpochOfName(checkpoints[Len(checkpoints)].name) = num_epochs

\* C2: in an epoch every train sample goes to exactly one mini-batch, every
\* mini-batch has batch_size samples except possibly the last, and each
\* mini-batch gets exactly one optimizer step: ceil(N / batch_size) per epoch.
C2_SinglePassBatches ==
    /\ InBatch =>
          /\ 1 <= Len(x) /\ Len(x) <= batch_size
          /\ Len(x) < batch_size => pos = Len(train_mat)
          /\ Len(y) = Len(x)
          /\ steps_ep = batches_ep - 1
    /\ pc = "batch" => steps_ep = batches_ep
    /\ \A a, b \in 1..Len(drawn) : drawn[a] = drawn[b] => a = b
    /\ Ids(drawn) \subseteq Ids(train_mat)
    /\ (pc \in {"eval", "save"} \/ (pc \in {"epoch", "returned"} /\ ep >= 1)) =>
          /\ Ids(drawn) = Ids(train_mat)
          /\ Len(drawn) = Len(train_mat)
          /\ batches_ep = CeilDiv(Len(train_mat), batch_size)
          /\ steps_ep = CeilDiv(Len(train_mat), batch_size)

\* C2's case: a second epoch over three samples in batches of two is through
C2_Witness ==
    /\ pc = "eval" /\ ep = 1
    /\ Len(train_mat) = 3 /\ batch_size = 2
    /\ steps_ep = 2 /\ Len(x) = 1

\* C4: the split partitions the samples, each with its own label, and no
\* validation sample is ever fed to a train-mode forward pass; the validation
\* samples are fed only to the eval-mode pass.
C4_SplitPartition ==
    pc \notin {"split"} =>
        /\ Ids(train_mat) \cup Ids(val_mat) = Ids(all_mat)
        /\ Ids(train_mat) \cap Ids(val_mat) = {}
        /\ Len(train_mat) + Len(val_mat) = Len(all_mat)
        /\ Len(train_label) = Len(train_mat) /\ Len(val_label) = Len(val_mat)
        /\ \A k \in 1..Len(train_mat) : train_label[k] = all_label[train_mat[k]]
        /\ \A k \in 1..Len(val_mat) : val_label[k] = all_label[val_mat[k]]
        /\ trained_on \cap Ids(val_mat) = {}
        /\ eval_fed \subseteq Ids(val_mat)
        /\ InBatch => Ids(x) \cap Ids(val_mat) = {}
        /\ pc \in {"backward", "clip", "step"} => mode = "train"
        /\ pc = "save" => mode = "eval"

\* C4's case: two epochs trained and evaluated on a non-trivial split
C4_Witness ==
    /\ pc = "returned" /\ ep = 2
    /\ Len(val_mat) >= 1 /\ Len(train_mat) >= 2
    /\ trained_on = Ids(train_mat) /\ eval_fed = Ids(val_mat)

\* C5: when a step of an epoch fails train stops there: the step is not
\* retried, no later epoch runs, no further checkpoint is written and the
\* checkpoints of earlier epochs stay as they are.
C5_FailStop ==
    [][ /\ failure # "" => UNCHANGED tvars
        /\ failure' # "" =>
              /\ pc' = "failed"
              /\ UNCHANGED <<ep, order, pos, checkpoints, weights, steps_ep, batches_ep,
                             result>>
        /\ \A k \in 1..Len(checkpoints) :
              /\ k <= Len(checkpoints')
              /\ checkpoints'[k] = checkpoints[k]
      ]_vars

\* C5's case: a step of the second epoch failed after the first epoch's
\* checkpoint was written
C5_Witness ==
    /\ pc = "failed" /\ failure \in FrameworkCalls
    /\ ep = 1 /\ num_epochs = 2
    /\ Len(checkpoints) = 1

\* the loss the last mini-batch of epoch e yields
LastLossOf(e) == [epoch |-> e, batch |-> CeilDiv(Len(train_mat), batch_size)]

\* C6 without its claim that train returns for every training set
C6_ExceptEmptyTrainSet ==
    /\ (InBatch \/ pc \in {"epoch", "batch", "returned"}) =>
          Len(train_loss) = ep /\ Len(train_f1) = ep /\ Len(val_f1) = ep
    /\ \A e \in 1..Len(train_loss) : train_loss[e] = LastLossOf(e)
    /\ pc = "returned" =>
          /\ result = Some(<<train_loss, train_f1, val_f1>>)
          /\ \A k \in 1..3 : Len(result[1][k]) = num_epochs

\* C6: after epoch e each metric list holds e entries, the e-th loss being
\* that of the epoch's last mini-batch, and train returns three lists of
\* length num_epochs for every training set (it never stops for want of a loss).
C6_MetricsPerEpoch ==
    /\ C6_ExceptEmptyTrainSet
    /\ failure # "UnboundLocalError"

\* C7: with --cuda d, for every d >= 0, the model, each mini-batch and the
\* validation matrix are on CUDA device d; without --cuda all are on the CPU.
C7_CudaPlacement ==
    pc \notin {"split", "setup"} =>
        LET dev == IF cuda = None THEN Cpu ELSE Cuda(cuda[1])
        IN /\ model_device = dev
           /\ val_device = dev
           /\ InBatch => x_device = dev /\ y_device = dev

\* C8: with --clip-norm the gradients are clipped after the backward pass and
\* before the optimizer step, and the step then proceeds; without it the step
\* uses the unclipped gradients.
C8_ClipBeforeStep ==
    /\ failure # "TypeError"
    /\ pc = "step" => grads = IF clip_norm = None THEN "raw" ELSE "clipped"

\* ------------------------------------------------------ read_data claims
\* the number of samples read_data was given: lines in line mode, files otherwise
NumSamplesRead == IF line THEN Len(src) ELSE nfiles

\* C3: every sample of the returned matrix has exactly max_length entries, one
\* sample per line (line=True) and one sample per file (line=False).
C3_OneFixedLengthVectorPerSample ==
    rpc = "returned" =>
        /\ ret.mat.shape[1] = NumSamplesRead
        /\ NumSamplesRead > 0 => ret.mat.shape = <<NumSamplesRead, max_length>>

\* C3 restricted to line mode, the part of it the code keeps
C3_LineModeOnly ==
    (rpc = "returned" /\ line) =>
        /\ ret.mat.shape[1] = Len(src)
        /\ Len(src) > 0 => ret.mat.shape = <<Len(src), max_length>>
        /\ \A r \in 1..Len(src) : Len(ret.mat.data[r]) = max_length

\* C9: in line mode the vector of a line with n tokens starts with the line's
\* first min(n, max_length) tokens in their order, the rest is the padding
\* index vocab_size, padding is a suffix only and is no real feature index.
C9_TokensThenPadding ==
    (rpc = "returned" /\ line) =>
        \A k \in 1..Len(src) :
            LET tokens == src[k].tokens
                m == Min(Len(tokens), max_length)
                row == ret.mat.data[k]
            IN /\ Len(row) = max_length
               /\ \A j \in 1..m : /\ row[j] = ParseInt(tokens[j].str)
                                  /\ row[j] \in 0..(vocab_size - 1)
                                  /\ row[j] # vocab_size
               /\ \A j \in (m + 1)..max_length : row[j] = vocab_size
               /\ \A j \in 1..max_length :
                     row[j] = vocab_size => \A jj \in j..max_length : row[jj] = vocab_size

\* C9's case: a returned matrix holding a padded line (two distinct tokens kept
\* in order) and a truncated line
C9_Witness ==
    /\ rpc = "returned" /\ line
    /\ \E k \in 1..Len(src) : /\ 0 < Len(src[k].tokens)
                              /\ Len(src[k].tokens) < max_length
                              /\ ret.mat.data[k][max_length] = vocab_size
    /\ \E k \in 1..Len(src) : /\ Len(src[k].tokens) > max_length
                              /\ max_length >= 2
                              /\ ret.mat.data[k][1] # ret.mat.data[k][2]

\* C10: the returned label list has one label per sample, each an index of
\* lang_dict that maps back to the sample's L1 (for a label CSV with one row
\* per file), in line mode the L1 of the row of the line's file.
C10_LabelsAligned ==
    (rpc = "returned" /\ Len(lang) = nfiles) =>
        /\ Len(ret.label) = ret.mat.shape[1]
        /\ \A k \in 1..Len(ret.label) : ret.label[k] \in DOMAIN ret.lang_dict
        /\ line => \A k \in 1..Len(src) :
                      ret.lang_dict[ret.label[k]] = lang[src[k].file + 1]

\* C10 restricted to line mode, for any CSV with at least one row per file
C10_LineModeOnly ==
    (rpc = "returned" /\ line) =>
        /\ Len(ret.label) = ret.mat.shape[1]
        /\ \A k \in 1..Len(ret.label) : ret.label[k] \in DOMAIN ret.lang_dict
        /\ \A k \in 1..Len(src) : ret.lang_dict[ret.label[k]] = lang[src[k].file + 1]
====
